---- MODULE Spec2Model ----
(***************************************************************************)
(* Model of src/Project.py: the PriceMachine price-list analyser.          *)
(*                                                                         *)
(* Text is modelled as a sequence of one-character strings, so that        *)
(* strip(), replace(), lower(), float() and the regular-expression         *)
(* searches are computed on the characters, as the code computes them.     *)
(* A float is modelled as an exact decimal: an integer counting units of   *)
(* 10^-FracDigits.  The ratio, which the code rounds to two digits, is an  *)
(* integer counting hundredths.                                            *)
(***************************************************************************)
EXTENDS Integers, Sequences, FiniteSets, TLC

VARIABLES
    data,       \* self.data: the catalog, a sequence of entries
    pc,         \* position of the program: new, listing, reading, query, done, crashed
    exc,        \* the exception that left the last call uncaught ("" if none)
    out,        \* the error report the last step printed ("" if none)
    op,         \* the operation the last step executed
    curFile,    \* file_path of the file load_data has open
    listed,     \* file names the loop over os.listdir has yielded so far
    loaded,     \* the entries row_handle appended in this load pass, in order
    query,      \* the last text read by input() / passed to a search since the load
    ret,        \* return value of the last search_element call since the load
    shown,      \* [query, result] tables printed by find_text since the last load
    arg,        \* row: the row given to extract_value / row_handle
    field,      \* the field whose pattern the last extract_value call on arg was given
    retVal,     \* return value of that extract_value call
    passes      \* load_prices was called never (0), once (1), more than once (2)

vars == <<data, pc, exc, out, op, curFile, listed, loaded, query, ret, shown,
          arg, field, retVal, passes>>

----------------------------------------------------------------------------
(* Bounds of the model *)

MaxFiles == 2
MaxEntries == 3
MaxShown == 2
MaxCols == 3
FracDigits == 1

(* round(price / weight, 2) *)
RoundDigits == 2

RECURSIVE Pow10(_)
Pow10(n) == IF n = 0 THEN 1 ELSE 10 * Pow10(n - 1)

Scale == Pow10(FracDigits)

----------------------------------------------------------------------------
(* Text helpers *)

(* A Latin letter is the one-letter string; a Cyrillic letter is written   *)
(* "ru_x" (small) or "RU_X" (capital), x its Latin transliteration, e.g.  *)
(* <<"RU_C", "ru_e", "ru_n", "ru_a">> is the column name Cena.             *)
UpperChars == <<"E", "X", "I", "T", "P", "R", "C", "S", "V",
                "RU_A", "RU_V", "RU_D", "RU_E", "RU_Z", "RU_I", "RU_K", "RU_L",
                "RU_M", "RU_N", "RU_O", "RU_P", "RU_R", "RU_S", "RU_T", "RU_U",
                "RU_F", "RU_C">>
LowerChars == <<"e", "x", "i", "t", "p", "r", "c", "s", "v",
                "ru_a", "ru_v", "ru_d", "ru_e", "ru_z", "ru_i", "ru_k", "ru_l",
                "ru_m", "ru_n", "ru_o", "ru_p", "ru_r", "ru_s", "ru_t", "ru_u",
                "ru_f", "ru_c">>

LowerMap ==
    [c \in {UpperChars[i] : i \in 1..Len(UpperChars)} |->
        LowerChars[CHOOSE i \in 1..Len(UpperChars) : UpperChars[i] = c]]

(* str.lower() on one character; also the case folding of re.IGNORECASE *)
LowerChar(c) == IF c \in DOMAIN LowerMap THEN LowerMap[c] ELSE c

(* str.lower() *)
lower(s) == [i \in 1..Len(s) |-> LowerChar(s[i])]

(* needle in hay *)
Contains(hay, needle) ==
    \E i \in 0..(Len(hay) - Len(needle)) :
        SubSeq(hay, i + 1, i + Len(needle)) = needle

(* str.endswith *)
endswith(s, suffix) ==
    /\ Len(s) >= Len(suffix)
    /\ SubSeq(s, Len(s) - Len(suffix) + 1, Len(s)) = suffix

(* str.strip(): drops leading and trailing whitespace *)
strip(s) ==
    LET keep == {i \in 1..Len(s) : s[i] # " "}
    IN  IF keep = {} THEN <<>>
        ELSE SubSeq(s, CHOOSE i \in keep : \A j \in keep : i <= j,
                       CHOOSE i \in keep : \A j \in keep : i >= j)

(* str.replace(',', '.') *)
replace_comma(s) == [i \in 1..Len(s) |-> IF s[i] = "," THEN "." ELSE s[i]]

Digits == <<"0", "1", "2", "3", "4", "5", "6", "7", "8", "9">>

IsDigit(c) == \E i \in 1..10 : Digits[i] = c

DigitVal(c) == (CHOOSE i \in 1..10 : Digits[i] = c) - 1

RECURSIVE DigitsVal(_)
DigitsVal(s) ==
    IF s = <<>> THEN 0
    ELSE 10 * DigitsVal(SubSeq(s, 1, Len(s) - 1)) + DigitVal(s[Len(s)])

(* float(text): [ok] tells whether the text is a number (otherwise the     *)
(* code gets a ValueError), [val] is the number in units of 10^-FracDigits *)
float(s) ==
    LET signed == Len(s) > 0 /\ s[1] \in {"-", "+"}
        body   == IF signed THEN Tail(s) ELSE s
        dots   == {i \in 1..Len(body) : body[i] = "."}
        d      == IF dots = {} THEN Len(body) + 1 ELSE CHOOSE i \in dots : TRUE
        ip     == SubSeq(body, 1, d - 1)
        fp     == SubSeq(body, d + 1, Len(body))
        fpad   == [i \in 1..FracDigits |-> IF i <= Len(fp) THEN fp[i] ELSE "0"]
        ok     == /\ Cardinality(dots) <= 1
                  /\ \A i \in 1..Len(ip) : IsDigit(ip[i])
                  /\ \A i \in 1..Len(fp) : IsDigit(fp[i])
                  /\ Len(ip) + Len(fp) >= 1
        mag    == DigitsVal(ip) * Scale + DigitsVal(fpad)
    IN  [ok  |-> ok,
         val |-> IF ~ok THEN 0 ELSE IF s[1] = "-" THEN 0 - mag ELSE mag]

(* round2 rounding a half away from zero *)
round2_half_up(num, den) ==
    LET n == IF den < 0 THEN 0 - num * Pow10(RoundDigits) ELSE num * Pow10(RoundDigits)
        d == IF den < 0 THEN 0 - den ELSE den
        a == IF n < 0 THEN 0 - n ELSE n
        q == a \div d
        r == a - q * d
        m == IF 2 * r < d THEN q ELSE q + 1
    IN  IF n < 0 THEN 0 - m ELSE m

(* round(num / den, 2) in hundredths, den # 0: Python rounds half to even *)
round2(num, den) ==
    LET n == IF den < 0 THEN 0 - num * Pow10(RoundDigits) ELSE num * Pow10(RoundDigits)
        d == IF den < 0 THEN 0 - den ELSE den
        a == IF n < 0 THEN 0 - n ELSE n
        q == a \div d
        r == a - q * d
        m == IF 2 * r < d THEN q
             ELSE IF 2 * r > d THEN q + 1
             ELSE IF q % 2 = 0 THEN q ELSE q + 1
    IN  IF n < 0 THEN 0 - m ELSE m

----------------------------------------------------------------------------
(* Regular expressions *)

nazvanie     == <<"ru_n", "ru_a", "ru_z", "ru_v", "ru_a", "ru_n", "ru_i", "ru_e">>
produkt      == <<"ru_p", "ru_r", "ru_o", "ru_d", "ru_u", "ru_k", "ru_t">>
tovar        == <<"ru_t", "ru_o", "ru_v", "ru_a", "ru_r">>
naimenovanie == <<"ru_n", "ru_a", "ru_i", "ru_m", "ru_e", "ru_n", "ru_o", "ru_v",
                  "ru_a", "ru_n", "ru_i", "ru_e">>
cena         == <<"ru_c", "ru_e", "ru_n", "ru_a">>
roznica      == <<"ru_r", "ru_o", "ru_z", "ru_n", "ru_i", "ru_c", "ru_a">>
fasovka      == <<"ru_f", "ru_a", "ru_s", "ru_o", "ru_v", "ru_k", "ru_a">>
massa        == <<"ru_m", "ru_a", "ru_s", "ru_s", "ru_a">>
ves          == <<"ru_v", "ru_e", "ru_s">>

(* The three patterns row_handle passes to extract_value, each the         *)
(* alternatives of its group.                                              *)
NAME   == <<nazvanie, produkt, tovar, naimenovanie>>
PRICE  == <<cena, roznica>>
WEIGHT == <<fasovka, massa, ves>>

Fields == {"NAME", "PRICE", "WEIGHT"}

PatternOf(f) == IF f = "NAME" THEN NAME ELSE IF f = "PRICE" THEN PRICE ELSE WEIGHT

(* re.search(r'(a|b|...)', text, re.IGNORECASE): some alternative occurs  *)
(* in the text, letters compared without case                              *)
re_search_alt(alts, text) ==
    \E a \in 1..Len(alts) :
        \E i \in 0..(Len(text) - Len(alts[a])) :
            \A k \in 1..Len(alts[a]) :
                LowerChar(alts[a][k]) = LowerChar(text[i + k])

(* A query is a regular expression over literal characters, "." and       *)
(* groups "(" ... ")".  re.compile raises re.error unless every group is  *)
(* closed and no ")" is unmatched.                                        *)
RECURSIVE Balanced(_, _)
Balanced(q, depth) ==
    IF q = <<>> THEN depth = 0
    ELSE IF q[1] = "(" THEN Balanced(Tail(q), depth + 1)
    ELSE IF q[1] = ")" THEN depth > 0 /\ Balanced(Tail(q), depth - 1)
    ELSE Balanced(Tail(q), depth)

Compiles(q) == Balanced(q, 0)

IsAtom(c) == c \notin {"(", ")"}

(* re.search(query, text, re.IGNORECASE) for a query that compiles *)
re_search(q, text) ==
    LET atoms == SelectSeq(q, IsAtom)
    IN  \E i \in 0..(Len(text) - Len(atoms)) :
            \A k \in 1..Len(atoms) :
                \/ atoms[k] = "."
                \/ LowerChar(atoms[k]) = LowerChar(text[i + k])

----------------------------------------------------------------------------
(* PriceMachine: the pure parts *)

(* extract_value returning the last matching column instead of the first *)
extract_value_last(row, pattern) ==
    LET hits == {i \in 1..Len(row) : re_search_alt(pattern, row[i][1])}
    IN  IF hits = {} THEN <<>>
        ELSE strip(row[CHOOSE i \in hits : \A j \in hits : i >= j][2])

(* A row is the sequence of its <<column name, value>> pairs, in the      *)
(* order of the columns.                                                   *)
extract_value(row, pattern) ==
    LET hits == {i \in 1..Len(row) : re_search_alt(pattern, row[i][1])}
    IN  IF hits = {} THEN <<>>
        ELSE strip(row[CHOOSE i \in hits : \A j \in hits : i <= j][2])

(* row_handle: [raised] is "" when the entry is appended, "caught" when   *)
(* the except clause caught a ValueError (the row is reported and          *)
(* skipped), or the name of the exception that leaves row_handle; [field]  *)
(* is the field of the last extract_value call it made.                    *)
(* An entry is <<file_name, product_name, price, weight, ratio>>.          *)
row_handle(file_name, row) ==
    LET product_name == extract_value(row, NAME)
        price  == float(replace_comma(extract_value(row, PRICE)))
        weight == float(replace_comma(extract_value(row, WEIGHT)))
    IN  IF ~price.ok THEN [raised |-> "caught", field |-> "PRICE", entry |-> <<>>]
        ELSE IF ~weight.ok THEN [raised |-> "caught", field |-> "WEIGHT", entry |-> <<>>]
        ELSE IF weight.val = 0
        THEN [raised |-> "ZeroDivisionError", field |-> "WEIGHT", entry |-> <<>>]
        ELSE [raised |-> "", field |-> "WEIGHT",
              entry  |-> <<file_name, product_name, price.val, weight.val,
                           round2(price.val, weight.val)>>]

(* a sort that is not stable: an entry goes before the entries of equal   *)
(* ratio that preceded it                                                  *)
RECURSIVE sorted_unstable(_)
sorted_unstable(s) ==
    IF s = <<>> THEN <<>>
    ELSE LET rest == sorted_unstable(SubSeq(s, 1, Len(s) - 1))
             x    == s[Len(s)]
             k    == Cardinality({i \in 1..Len(rest) : rest[i][5] < x[5]})
         IN  SubSeq(rest, 1, k) \o <<x>> \o SubSeq(rest, k + 1, Len(rest))

(* sorted(s, key=lambda x: x[4]) and list.sort(key=lambda row: row[4]):   *)
(* a stable sort, here by insertion behind the entries of equal ratio.     *)
RECURSIVE sorted_by_ratio(_)
sorted_by_ratio(s) ==
    IF s = <<>> THEN <<>>
    ELSE LET rest == sorted_by_ratio(SubSeq(s, 1, Len(s) - 1))
             x    == s[Len(s)]
             k    == Cardinality({i \in 1..Len(rest) : rest[i][5] <= x[5]})
         IN  SubSeq(rest, 1, k) \o <<x>> \o SubSeq(rest, k + 1, Len(rest))

Matches(q, row) == re_search(q, row[2])

(* search_element without the sort *)
search_element_nosort(q, d) == SelectSeq(d, LAMBDA row : Matches(q, row))

(* search_element, for a query that compiles *)
search_element(q, d) ==
    sorted_by_ratio(SelectSeq(d, LAMBDA row : Matches(q, row)))

(* re.search compiles the query when the comprehension reaches the first  *)
(* entry: with an empty catalog it is never called.                        *)
search_raises(q, d) == d # <<>> /\ ~Compiles(q)

(* filename.endswith('.csv') and 'price' in filename.lower() *)
IsPriceFile(filename) ==
    /\ endswith(filename, <<".", "c", "s", "v">>)
    /\ Contains(lower(filename), <<"p", "r", "i", "c", "e">>)

(* query.lower() in 'exit' *)
IsExit(q) == Contains(<<"e", "x", "i", "t">>, lower(q))

----------------------------------------------------------------------------
(* Inputs: what the directory, the files and the console supply *)

price_csv  == <<"p", "r", "i", "c", "e", ".", "c", "s", "v">>
Price2_csv == <<"P", "r", "i", "c", "e", "2", ".", "c", "s", "v">>
report_csv == <<"r", "e", "p", "o", "r", "t", ".", "c", "s", "v">>

FileNames == {price_csv, Price2_csv, report_csv}

(* column names *)
Nazvanie == <<"RU_N", "ru_a", "ru_z", "ru_v", "ru_a", "ru_n", "ru_i", "ru_e">>
Cena     == <<"RU_C", "ru_e", "ru_n", "ru_a">>
Massa    == <<"RU_M", "ru_a", "ru_s", "ru_s", "ru_a">>
kod      == <<"ru_k", "ru_o", "ru_d">>

(* product names *)
Mol  == <<"RU_M", "ru_o", "ru_l">>
MOL  == <<"RU_M", "RU_O", "RU_L">>
Sok  == <<" ", "RU_S", "ru_o", "ru_k", " ">>

(* rows of the price lists *)
rMilk   == << <<tovar, Mol>>, <<cena, <<"8", "0", ",", "5">> >>, <<ves, <<"1">> >> >>
rJuice  == << <<Nazvanie, Sok>>, <<roznica, <<"1", "6", "1">> >>, <<Massa, <<"2">> >> >>
rNeg    == << <<tovar, MOL>>, <<Cena, <<"3">> >>, <<ves, <<" ", "-", "2">> >> >>
rZero   == << <<tovar, Mol>>, <<cena, <<"3">> >>, <<ves, <<"0">> >> >>
rNoNum  == << <<kod, <<"7">> >>, <<tovar, Sok>>, <<Cena, <<"x">> >>, <<roznica, <<"3">> >>,
              <<ves, <<"1">> >> >>

Rows == {rMilk, rJuice, rNeg, rZero, rNoNum}

(* rows generated from cells, for the calls of extract_value and          *)
(* row_handle on their own: up to MaxCols columns of distinct names        *)
GenCols == {tovar, Cena, roznica, ves}
GenVals == {Sok, <<"0", ",", "5">>, <<"0">>, <<"-", "4">>, <<>>}

RECURSIVE GenRowsOfLen(_)
GenRowsOfLen(n) ==
    IF n = 0 THEN {<<>>}
    ELSE {Append(r, <<c, v>>) :
            r \in GenRowsOfLen(n - 1), c \in GenCols, v \in GenVals}

DistinctCols(r) == \A i, j \in 1..Len(r) : r[i][1] = r[j][1] => i = j

GenRows == UNION {{r \in GenRowsOfLen(n) : DistinctCols(r)} : n \in 0..MaxCols}

(* texts typed at the prompt *)
exit_ == <<"e", "x", "i", "t">>
qM_l  == <<"ru_m", ".", "ru_l">>
qO    == <<"(", "ru_o", ")">>
qBad  == <<"(", "ru_o">>

Queries == {qM_l, qO, qBad}

Inputs == {<<>>, <<"x", "i">>, exit_, <<"E", "X", "I", "T">>, qM_l, qO, qBad}

----------------------------------------------------------------------------
(* The program *)

Init ==
    /\ data = <<>>
    /\ pc = "new"
    /\ exc = ""
    /\ out = ""
    /\ op = "init"
    /\ curFile = <<>>
    /\ listed = {}
    /\ loaded = <<>>
    /\ query = <<>>
    /\ ret = <<>>
    /\ shown = <<>>
    /\ arg = <<>>
    /\ field = ""
    /\ retVal = <<>>
    /\ passes = 0

Idle == pc \in {"new", "query"}

(* load_prices without self.data = [] *)
load_prices_noclear ==
    /\ data' = data
    /\ pc' = "listing"
    /\ listed' = {}
    /\ loaded' = <<>>
    /\ shown' = <<>>
    /\ query' = <<>>
    /\ ret' = <<>>
    /\ op' = "load_prices"
    /\ out' = ""
    /\ passes' = IF passes = 0 THEN 1 ELSE 2
    /\ UNCHANGED <<exc, curFile, arg, field, retVal>>

(* load_prices, up to the first file: self.data = [] *)
load_prices_begin ==
    /\ data' = <<>>
    /\ pc' = "listing"
    /\ listed' = {}
    /\ loaded' = <<>>
    /\ shown' = <<>>
    /\ query' = <<>>
    /\ ret' = <<>>
    /\ op' = "load_prices"
    /\ out' = ""
    /\ passes' = IF passes = 0 THEN 1 ELSE 2
    /\ UNCHANGED <<exc, curFile, arg, field, retVal>>

(* main: self.load_prices(directory) *)
MainStart == pc = "new" /\ load_prices_begin

(* a call of load_prices on the object *)
LoadPrices == Idle /\ load_prices_begin

(* load_prices: one turn of the loop over os.listdir, with load_data's    *)
(* open(); a file that cannot be opened is reported and skipped            *)
NextFile(filename, readable) ==
    /\ UNCHANGED passes
    /\ pc = "listing"
    /\ filename \notin listed
    /\ Cardinality(listed) < MaxFiles
    /\ listed' = listed \cup {filename}
    /\ op' = "listdir"
    /\ IF IsPriceFile(filename)
       THEN IF readable
            THEN pc' = "reading" /\ curFile' = filename /\ out' = ""
            ELSE pc' = "listing" /\ curFile' = curFile /\ out' = "file_error"
       ELSE pc' = "listing" /\ curFile' = curFile /\ out' = ""
    /\ UNCHANGED <<data, exc, loaded, query, ret, shown, arg, field, retVal>>

(* load_prices: os.listdir is exhausted, load_prices returns *)
EndListing ==
    /\ UNCHANGED passes
    /\ pc = "listing"
    /\ pc' = "query"
    /\ op' = "load_prices_return"
    /\ out' = ""
    /\ listed' = {}
    /\ UNCHANGED <<data, exc, curFile, loaded, query, ret, shown, arg, field, retVal>>

(* the effect of self.row_handle(file_name, row) *)
RowStep(file_name, row) ==
    LET r == row_handle(file_name, row)
    IN  /\ arg' = row
        /\ op' = "row_handle"
        /\ field' = r.field
        /\ retVal' = extract_value(row, PatternOf(r.field))
        /\ IF r.raised = ""
           THEN /\ data' = Append(data, r.entry)
                /\ loaded' = Append(loaded, r.entry)
                /\ out' = ""
                /\ UNCHANGED <<pc, exc>>
           ELSE IF r.raised = "caught"
           THEN out' = "row_error" /\ UNCHANGED <<data, loaded, pc, exc>>
           ELSE /\ exc' = r.raised
                /\ pc' = "crashed"
                /\ out' = ""
                /\ UNCHANGED <<data, loaded>>

(* load_data: one turn of the loop over the reader *)
NextRow(row) ==
    /\ UNCHANGED passes
    /\ pc = "reading"
    /\ Len(data) < MaxEntries
    /\ RowStep(curFile, row)
    /\ UNCHANGED <<curFile, listed, query, ret, shown>>

(* load_data: the reader is exhausted, the file is closed *)
EndFile ==
    /\ UNCHANGED passes
    /\ pc = "reading"
    /\ pc' = "listing"
    /\ op' = "load_data_return"
    /\ out' = ""
    /\ curFile' = <<>>
    /\ arg' = <<>>
    /\ field' = ""
    /\ retVal' = <<>>
    /\ UNCHANGED <<data, exc, listed, loaded, query, ret, shown>>

(* load_data: the reader raises csv.Error, which load_data reports *)
ReaderError ==
    /\ UNCHANGED passes
    /\ pc = "reading"
    /\ pc' = "listing"
    /\ op' = "load_data_error"
    /\ out' = "file_error"
    /\ curFile' = <<>>
    /\ arg' = <<>>
    /\ field' = ""
    /\ retVal' = <<>>
    /\ UNCHANGED <<data, exc, listed, loaded, query, ret, shown>>

(* find_text(query): search, show and export the result, then             *)
(* export_to_html_all, which sorts self.data in place                      *)
find_text(q) ==
    /\ Len(shown) < MaxShown
    /\ query' = q
    /\ IF search_raises(q, data)
       THEN /\ exc' = "re.error"
            /\ pc' = "crashed"
            /\ out' = ""
            /\ UNCHANGED <<data, ret, shown>>
       ELSE /\ ret' = search_element(q, data)
            /\ shown' = Append(shown, [query |-> q, result |-> search_element(q, data)])
            /\ data' = sorted_by_ratio(data)
            /\ out' = ""
            /\ UNCHANGED <<pc, exc>>
    /\ UNCHANGED <<curFile, listed, loaded, arg, field, retVal>>

(* main: one turn of the while loop *)
Input(q) ==
    /\ UNCHANGED passes
    /\ pc = "query"
    /\ op' = "input"
    /\ IF IsExit(q)
       THEN /\ pc' = "done"
            /\ query' = q
            /\ out' = ""
            /\ UNCHANGED <<data, exc, curFile, listed, loaded, ret, shown, arg,
                           field, retVal>>
       ELSE find_text(q)

(* a call of find_text on the object *)
FindText(q) ==
    /\ UNCHANGED passes
    /\ Idle
    /\ op' = "find_text"
    /\ find_text(q)

(* a call of export_to_html_all on the object *)
ExportToHtmlAll ==
    /\ UNCHANGED passes
    /\ Idle
    /\ op' = "export_to_html_all"
    /\ data' = sorted_by_ratio(data)
    /\ out' = ""
    /\ UNCHANGED <<pc, exc, curFile, listed, loaded, query, ret, shown, arg,
                   field, retVal>>

(* a call of search_element on the object *)
SearchElement(q) ==
    /\ UNCHANGED passes
    /\ Idle
    /\ op' = "search_element"
    /\ query' = q
    /\ out' = ""
    /\ IF search_raises(q, data)
       THEN exc' = "re.error" /\ pc' = "crashed" /\ UNCHANGED ret
       ELSE ret' = search_element(q, data) /\ UNCHANGED <<pc, exc>>
    /\ UNCHANGED <<data, curFile, listed, loaded, shown, arg, field, retVal>>

(* a new object and a row for the calls of extract_value and row_handle *)
InitRow ==
    /\ data = <<>>
    /\ pc = "new"
    /\ exc = ""
    /\ out = ""
    /\ op = "init"
    /\ curFile = <<>>
    /\ listed = {}
    /\ loaded = <<>>
    /\ query = <<>>
    /\ ret = <<>>
    /\ shown = <<>>
    /\ arg \in GenRows
    /\ field = ""
    /\ retVal = <<>>
    /\ passes = 0

(* a call of extract_value on the row *)
ExtractValue(f) ==
    /\ UNCHANGED passes
    /\ pc = "new"
    /\ data = <<>>
    /\ op' = "extract_value"
    /\ field' = f
    /\ retVal' = extract_value(arg, PatternOf(f))
    /\ out' = ""
    /\ UNCHANGED <<data, pc, exc, curFile, listed, loaded, query, ret, shown, arg>>

(* a call of row_handle on the row *)
RowHandle(file_name) ==
    /\ UNCHANGED passes
    /\ pc = "new"
    /\ data = <<>>
    /\ RowStep(file_name, arg)
    /\ UNCHANGED <<curFile, listed, query, ret, shown>>

(* The program: python Project.py *)
Next ==
    \/ MainStart
    \/ \E f \in FileNames, readable \in BOOLEAN : NextFile(f, readable)
    \/ EndListing
    \/ \E row \in Rows : NextRow(row)
    \/ EndFile
    \/ ReaderError
    \/ \E q \in Inputs : Input(q)

Spec == Init /\ [][Next]_vars

(* Any sequence of calls of the object's methods *)
NextApi ==
    \/ LoadPrices
    \/ \E f \in FileNames, readable \in BOOLEAN : NextFile(f, readable)
    \/ EndListing
    \/ \E row \in Rows : NextRow(row)
    \/ EndFile
    \/ ReaderError
    \/ \E q \in Queries : FindText(q)
    \/ \E q \in Queries : SearchElement(q)
    \/ ExportToHtmlAll

SpecApi == Init /\ [][NextApi]_vars

(* Calls of extract_value and row_handle on generated rows *)
NextRowCalls ==
    \/ \E f \in Fields : ExtractValue(f)
    \/ RowHandle(price_csv)

SpecRow == InitRow /\ [][NextRowCalls]_vars

----------------------------------------------------------------------------
(* Properties *)

Abs(x) == IF x < 0 THEN 0 - x ELSE x

Count(seq, e) == Cardinality({i \in 1..Len(seq) : seq[i] = e})

Elems(seq) == {seq[i] : i \in 1..Len(seq)}

IsPermutation(s, t) ==
    /\ Len(s) = Len(t)
    /\ \A e \in Elems(s) \cup Elems(t) : Count(s, e) = Count(t, e)

(* the columns of the row whose name contains, in any case, one of the    *)
(* field's candidate names                                                 *)
ColumnsOf(row, f) ==
    {i \in 1..Len(row) :
        \E a \in 1..Len(PatternOf(f)) : Contains(lower(row[i][1]), PatternOf(f)[a])}

(* t is s without its leading and trailing blanks *)
IsTrimOf(t, s) ==
    /\ t = <<>> \/ (t[1] # " " /\ t[Len(t)] # " ")
    /\ \E a \in 0..Len(s) :
          /\ a + Len(t) <= Len(s)
          /\ SubSeq(s, a + 1, a + Len(t)) = t
          /\ \A i \in (1..a) \cup ((a + Len(t) + 1)..Len(s)) : s[i] = " "

(* the number the row's field holds: the text of the field's first column *)
(* with its decimal comma replaced by a point                              *)
NumberOf(row, f) == float(replace_comma(extract_value(row, PatternOf(f))))

WeightIsZero(row) == NumberOf(row, "WEIGHT").ok /\ NumberOf(row, "WEIGHT").val = 0

WellFormed(row) ==
    /\ NumberOf(row, "PRICE").ok
    /\ NumberOf(row, "WEIGHT").ok
    /\ NumberOf(row, "WEIGHT").val # 0

(* C1: a row whose weight parses to zero is a recoverable row error: no   *)
(* entry is appended, the row is reported and the load goes on with the   *)
(* next row.                                                               *)
C1_ZeroWeightRowIsSkipped ==
    (op = "row_handle" /\ WeightIsZero(arg) /\ NumberOf(arg, "PRICE").ok)
        => (pc = "reading" /\ exc = "" /\ out = "row_error")

(* C2: a query that is a malformed regular expression is an error of that *)
(* query only: the loop of main stays alive and awaits the next query.     *)
C2_MalformedQueryKeepsSession ==
    (op = "input" /\ ~Compiles(query)) => (pc = "query" /\ exc = "")

(* C3: the loop of main terminates if and only if the input is exactly    *)
(* the token "exit".                                                       *)
C3_ExitOnlyOnExactToken ==
    op = "input" => (pc = "done" <=> query = exit_)

(* C4: every entry of the catalog has a weight greater than zero.         *)
C4_WeightsPositive ==
    \A i \in 1..Len(data) : data[i][4] > 0

(* C5: a row with no column for one of the three fields, or whose price   *)
(* or weight is not a number, produces no entry: it is reported and       *)
(* skipped, and the load continues.  (Stated for the rows whose weight is  *)
(* not zero; those are C1's.)                                              *)
C5_DefectiveRowIsSkipped ==
    (/\ op = "row_handle"
     /\ ~WeightIsZero(arg)
     /\ \/ \E f \in Fields : ColumnsOf(arg, f) = {}
        \/ ~NumberOf(arg, "PRICE").ok
        \/ ~NumberOf(arg, "WEIGHT").ok)
        => (data = <<>> /\ out = "row_error" /\ pc = "new")

(* C6: search_element returns exactly the entries of the catalog whose    *)
(* name matches the query, each once, in non-decreasing order of ratio,   *)
(* entries of equal ratio in their order in the catalog.                   *)
C6_SearchResult ==
    (op = "search_element" /\ pc # "crashed") =>
        LET M == {j \in 1..Len(data) : re_search(query, data[j][2])}
        IN  /\ Len(ret) = Cardinality(M)
            /\ \E f \in [1..Len(ret) -> M] :
                  /\ \A i \in 1..Len(ret) : ret[i] = data[f[i]]
                  /\ \A i, j \in 1..Len(ret) :
                        i < j => /\ f[i] # f[j]
                                 /\ ret[i][5] <= ret[j][5]
                                 /\ ret[i][5] = ret[j][5] => f[i] < f[j]

C6_Witness ==
    /\ op = "search_element"
    /\ pc # "crashed"
    /\ Len(ret) = 2
    /\ Len(data) = 3
    /\ ret[1] # ret[2]
    /\ ret[1][5] = ret[2][5]
    /\ data # sorted_by_ratio(data)

(* C7: the catalog holds, as a multiset, exactly the entries of the most  *)
(* recent load_prices pass, whatever loads, searches and exports came      *)
(* before.                                                                 *)
C7_CatalogIsLastLoad == IsPermutation(data, loaded)

C7_Witness ==
    /\ pc = "query"
    /\ op = "find_text"
    /\ Len(data) >= 2
    /\ data # loaded
    /\ passes = 2

(* C8: extract_value returns the trimmed value of the first column whose  *)
(* name matches the field, whatever later matching columns hold, and the   *)
(* empty text when no column matches.                                      *)
C8_FirstMatchingColumn ==
    op = "extract_value" =>
        LET hits == ColumnsOf(arg, field)
        IN  IF hits = {} THEN retVal = <<>>
            ELSE \E i \in hits : /\ \A j \in hits : i <= j
                                 /\ IsTrimOf(retVal, arg[i][2])

C8_Witness ==
    /\ op = "extract_value"
    /\ retVal = <<>>
    /\ \E i, j \in ColumnsOf(arg, field) : i < j /\ strip(arg[j][2]) # <<>>

(* C9: for a row with numeric price and nonzero numeric weight, the       *)
(* entry row_handle appends holds the price and the weight parsed after    *)
(* the decimal comma is replaced, and its ratio is price / weight rounded  *)
(* to two digits: the nearest hundredth, the even one of two equally near. *)
C9_RatioIsRounded ==
    (op = "row_handle" /\ WellFormed(arg)) =>
        /\ Len(data) = 1
        /\ data[1][3] = NumberOf(arg, "PRICE").val
        /\ data[1][4] = NumberOf(arg, "WEIGHT").val
        /\ LET n == Pow10(RoundDigits) * data[1][3]
               w == data[1][4]
               r == data[1][5]
           IN  /\ 2 * Abs(n - r * w) <= Abs(w)
               /\ 2 * Abs(n - r * w) = Abs(w) => r % 2 = 0

C9_Witness ==
    /\ op = "row_handle"
    /\ WellFormed(arg)
    /\ Len(data) = 1
    /\ \E i \in ColumnsOf(arg, "PRICE") : Contains(arg[i][2], <<",">>)
    /\ 2 * Abs(Pow10(RoundDigits) * data[1][3] - data[1][5] * data[1][4])
          = Abs(data[1][4])

(* C10: with no load in between, the same query gets the same result,     *)
(* the same entries in the same order, every time find_text is called.     *)
C10_SearchIdempotent ==
    \A i, j \in 1..Len(shown) :
        shown[i].query = shown[j].query => shown[i].result = shown[j].result

C10_Witness ==
    /\ Len(shown) >= 2
    /\ shown[1].query = shown[2].query
    /\ Len(shown[1].result) >= 2
    /\ shown[1].result[1][5] = shown[1].result[2][5]
    /\ shown[1].result[1] # shown[1].result[2]
    /\ loaded # sorted_by_ratio(loaded)

====
